---- MODULE Spec2Model ----
(***************************************************************************)
(* State-machine model of the OBJ viewer:                                  *)
(*   - loader::load_model, the line-oriented OBJ parser (loader/mod.rs),   *)
(*   - the four canvas event callbacks registered by                       *)
(*     Dom::register_dom_event_callbacks (init_dom/mod.rs),                *)
(*   - WebGLState::set_model_data and WebGLState::draw                     *)
(*     (web_gl_state/mod.rs).                                              *)
(*                                                                         *)
(* Numbers.  f32 values are modelled by integers on the inputs the model   *)
(* draws: rotation angles and cursor coordinates are whole degrees/pixels  *)
(* (i32 cast to f32 and added, exact below 2^24); camera_offset is kept in *)
(* fixed point, in units of 1/FixedPoint, which is exact for whole-number  *)
(* wheel deltas scaled by 0.25.                                            *)
(*                                                                         *)
(* Panics.  The crate is a wasm-bindgen library: a panic traps the running *)
(* callback without unwinding, so what the callback stored before the      *)
(* panic stays stored, and RefCell guards alive at the panic are never     *)
(* released.                                                               *)
(***************************************************************************)
EXTENDS Integers, Sequences, FiniteSets, TLC

VARIABLES
    \* ---- SharedState (fields used in init_dom/mod.rs) ----
    canvas_cursor_is_dragging,      \* bool
    canvas_cursor_xy_coordinates,   \* [i32; 2]
    current_rotation,               \* [f32; 2], whole degrees
    camera_offset,                  \* f32, in units of 1/FixedPoint
    \* ---- WebGLState ----
    model_data,                     \* Option<ModelData>
    \* ---- Rc<RefCell<SharedState>> ----
    borrow_flag,                    \* outstanding shared borrows of the RefCell
    \* ---- observation of the callbacks ----
    last_event,                     \* the callback that ran last and how it ended
    last_draw,                      \* the most recent call of WebGLState::draw
    prev_draw,                      \* the call of WebGLState::draw before that one
    draw_count,                     \* number of calls of WebGLState::draw so far
    events_handled,                 \* number of callbacks run so far
    last_pointer,                   \* position given by the latest mousemove event
    \* ---- loader::load_model, stepped line by line ----
    reader,                         \* lines not yet read
    vertex_position_list,           \* Vec<[f32; 3]>
    triangle_list,                  \* Vec<[u32; 3]>
    parse_status,                   \* "idle" | "reading" | "ok" | "panic"
    parse_input,                    \* the whole input of the running parse
    parse_output                    \* the ModelData returned (when parse_status = "ok")

viewer_vars == <<canvas_cursor_is_dragging, canvas_cursor_xy_coordinates,
                 current_rotation, camera_offset, model_data, borrow_flag,
                 last_event, last_draw, draw_count, events_handled,
                 last_pointer, prev_draw>>

parser_vars == <<reader, vertex_position_list, triangle_list, parse_status,
                 parse_input, parse_output>>

vars == <<viewer_vars, parser_vars>>

(***************************************************************************)
(* Bounds of the model.                                                    *)
(***************************************************************************)
\* longest input, in lines, given to load_model
MaxLines == 3
\* number of callbacks run in one behaviour
MaxEvents == 5

(***************************************************************************)
(* Text.  A token is a sequence of one-character strings; a line is the    *)
(* sequence of tokens split_whitespace yields (never an empty token); an   *)
(* input is a sequence of lines.                                           *)
(***************************************************************************)
Digits == {"0", "1", "2", "3", "4", "5", "6", "7", "8", "9"}

DigitValue(c) ==
    CASE c = "0" -> 0 [] c = "1" -> 1 [] c = "2" -> 2 [] c = "3" -> 3
      [] c = "4" -> 4 [] c = "5" -> 5 [] c = "6" -> 6 [] c = "7" -> 7
      [] c = "8" -> 8 [] c = "9" -> 9

RECURSIVE DecimalValue(_)
DecimalValue(s) ==
    IF s = <<>> THEN 0
    ELSE 10 * DecimalValue(SubSeq(s, 1, Len(s) - 1)) + DigitValue(s[Len(s)])

AllDigits(s) == s # <<>> /\ \A i \in 1..Len(s) : s[i] \in Digits

ParseError == [ok |-> FALSE, val |-> 0]
Parsed(n) == [ok |-> TRUE, val |-> n]

\* u32::MAX = 4294967295 has ten digits: a run of fewer digits never
\* overflows.  Every token of the catalogue below is shorter, so the overflow
\* arm of the conversion is decided by the length alone.
U32SafeDigits == 9

\* str::parse::<u32>: an optional "+", then one or more digits, no overflow
ParseU32(s) ==
    LET body == IF s # <<>> /\ s[1] = "+" THEN Tail(s) ELSE s
    IN  IF AllDigits(body) /\ Len(body) <= U32SafeDigits
        THEN Parsed(DecimalValue(body))
        ELSE ParseError

\* str::parse::<f32> on the tokens of the model: an optional sign, then one
\* or more digits (the alphabet of the catalogue below holds no ".", "e",
\* "inf" or "nan", the other forms the conversion accepts)
ParseF32(s) ==
    LET signed == s # <<>> /\ s[1] \in {"+", "-"}
        body == IF signed THEN Tail(s) ELSE s
    IN  IF AllDigits(body)
        THEN Parsed(IF signed /\ s[1] = "-" THEN 0 - DecimalValue(body)
                    ELSE DecimalValue(body))
        ELSE ParseError

\* token.split("/").next(): the text before the first "/", the whole token
\* when it holds none; always present, possibly empty
FirstSlashSegment(tok) ==
    LET slashes == {i \in 1..Len(tok) : tok[i] = "/"}
    IN  IF slashes = {} THEN tok
        ELSE SubSeq(tok, 1, (CHOOSE i \in slashes : \A j \in slashes : i <= j) - 1)


(***************************************************************************)
(* loader::load_model                                                      *)
(***************************************************************************)
\* Mutant of InitialVertexPositionList: the dummy coordinate is not pushed.
InitialVertexPositionList_NoSentinel == << >>

\* vertex_position_list after "dummy coordinate to support 1 based indexing"
InitialVertexPositionList == << <<0, 0, 0>> >>

\* triangle_list after triangle_list.push([0, 0, 0])
InitialTriangleList == << <<0, 0, 0>> >>

\* The arm "v": the next three tokens, each parsed as f32.  A missing token
\* fails its expect("there is ... data"), an unparsable one its
\* expect("... should be parsable into f32"): either way the thread panics.
\* Tokens after the third are never read.
VertexArm(split) ==
    IF Len(split) >= 3 /\ \A i \in 1..3 : ParseF32(split[i]).ok
    THEN [panic |-> FALSE,
          point |-> <<ParseF32(split[1]).val, ParseF32(split[2]).val,
                      ParseF32(split[3]).val>>]
    ELSE [panic |-> TRUE, point |-> <<0, 0, 0>>]

\* The arm "f": the first "/"-segment of each of the next three tokens,
\* parsed as u32; the same expects, the same panic.  The indices are stored
\* as read: not compared with the number of vertices, not offset.
FaceArm(split) ==
    IF Len(split) >= 3 /\ \A i \in 1..3 : ParseU32(FirstSlashSegment(split[i])).ok
    THEN [panic |-> FALSE,
          triangle |-> <<ParseU32(FirstSlashSegment(split[1])).val,
                         ParseU32(FirstSlashSegment(split[2])).val,
                         ParseU32(FirstSlashSegment(split[3])).val>>]
    ELSE [panic |-> TRUE, triangle |-> <<0, 0, 0>>]

PrefixV == <<"v">>
PrefixF == <<"f">>

\* One turn of the while loop on `line`: match on the first token.
ReadLine(vpl, tl, line) ==
    IF line = <<>>
    THEN [panic |-> FALSE, vpl |-> vpl, tl |-> tl]               \* prefix None
    ELSE IF line[1] = PrefixV
    THEN LET r == VertexArm(Tail(line))
         IN  IF r.panic THEN [panic |-> TRUE, vpl |-> vpl, tl |-> tl]
             ELSE [panic |-> FALSE, vpl |-> Append(vpl, r.point), tl |-> tl]
    ELSE IF line[1] = PrefixF
    THEN LET r == FaceArm(Tail(line))
         IN  IF r.panic THEN [panic |-> TRUE, vpl |-> vpl, tl |-> tl]
             ELSE [panic |-> FALSE, vpl |-> vpl, tl |-> Append(tl, r.triangle)]
    ELSE [panic |-> FALSE, vpl |-> vpl, tl |-> tl]               \* "g", _

\* into_iter().flatten().collect()
RECURSIVE Flatten(_)
Flatten(list) ==
    IF list = <<>> THEN <<>> ELSE Head(list) \o Flatten(Tail(list))

NoModelData == [some |-> FALSE, vertices |-> <<>>, indices |-> <<>>]
ModelData(vpl, tl) ==
    [some |-> TRUE, vertices |-> Flatten(vpl), indices |-> Flatten(tl)]

RECURSIVE ReadLines(_, _, _)
ReadLines(vpl, tl, lines) ==
    IF lines = <<>> THEN [panic |-> FALSE, vpl |-> vpl, tl |-> tl]
    ELSE LET r == ReadLine(vpl, tl, Head(lines))
         IN  IF r.panic THEN r ELSE ReadLines(r.vpl, r.tl, Tail(lines))

\* load_model run to its end on `input`: Ok(ModelData) or a panic.  No path
\* of the function returns Err.
load_model(input) ==
    LET r == ReadLines(InitialVertexPositionList, InitialTriangleList, input)
    IN  IF r.panic THEN [kind |-> "Panic", data |-> NoModelData]
        ELSE [kind |-> "Ok", data |-> ModelData(r.vpl, r.tl)]

(***************************************************************************)
(* Inputs of the parser: every sequence of at most MaxLines lines of the   *)
(* catalogue.                                                              *)
(***************************************************************************)
Line_v_1_2_3     == << <<"v">>, <<"1">>, <<"2">>, <<"3">> >>
Line_v_4_5_6     == << <<"v">>, <<"4">>, <<"5">>, <<"6">> >>
Line_v_m1_0_p2_9 == << <<"v">>, <<"-", "1">>, <<"0">>, <<"+", "2">>, <<"9">> >>
Line_v_1_2       == << <<"v">>, <<"1">>, <<"2">> >>
Line_v_1_x_3     == << <<"v">>, <<"1">>, <<"x">>, <<"3">> >>
Line_f_1_2_1     == << <<"f">>, <<"1">>, <<"2">>, <<"1">> >>
Line_f_slashes   == << <<"f">>, <<"2", "/", "1", "/", "1">>, <<"1", "/", "/", "2">>,
                       <<"2", "/", "x">> >>
Line_f_quad      == << <<"f">>, <<"1">>, <<"2">>, <<"2">>, <<"1">> >>
Line_f_1_2       == << <<"f">>, <<"1">>, <<"2">> >>
Line_f_empty_seg == << <<"f">>, <<"/", "1">>, <<"2">>, <<"1">> >>
Line_f_x_1_2     == << <<"f">>, <<"x">>, <<"1">>, <<"2">> >>
Line_f_0_1_2     == << <<"f">>, <<"0">>, <<"1">>, <<"2">> >>
Line_f_7_8_9     == << <<"f">>, <<"7">>, <<"8">>, <<"9">> >>
Line_g           == << <<"g">>, <<"x">> >>
Line_vn          == << <<"v", "n">>, <<"0">>, <<"0">>, <<"1">> >>
Line_blank       == << >>

LineCatalogue ==
    {Line_v_1_2_3, Line_v_4_5_6, Line_v_m1_0_p2_9, Line_v_1_2, Line_v_1_x_3,
     Line_f_1_2_1, Line_f_slashes, Line_f_quad, Line_f_1_2, Line_f_empty_seg,
     Line_f_x_1_2, Line_f_0_1_2, Line_f_7_8_9, Line_g, Line_vn, Line_blank}

\* the inputs of n lines
InputsOfLength(n) == [1..n -> LineCatalogue]

ParserInputs == UNION {InputsOfLength(n) : n \in 0..MaxLines}


(***************************************************************************)
(* WebGLState (web_gl_state/mod.rs)                                        *)
(***************************************************************************)
\* camera_offset is held in units of 1/FixedPoint
FixedPoint == 4

\* let field_of_view_radians = 60.0 * PI / 180.0
FieldOfViewDegrees == 60

\* SharedState::z_near and z_far, in tenths: set when the state is built,
\* assigned by no callback, passed to every draw
z_near == 1
z_far == 2000

\* Mutant of Frame: the rotation about Y advances with every frame drawn.
Frame_Animated(result, w, h, x_rot, y_rot, offset, md) ==
    [result        |-> result,
     canvas_width  |-> w,
     canvas_height |-> h,
     x_rot         |-> x_rot,
     y_rot         |-> y_rot,
     camera_offset |-> offset,
     eye           |-> IF result = "drawn" THEN <<0, offset, offset>> ELSE <<0, 0, 0>>,
     fov           |-> IF result = "drawn" THEN FieldOfViewDegrees ELSE 0,
     z_near        |-> z_near,
     z_far         |-> z_far,
     x_axis_angle  |-> IF result = "drawn" THEN 0 - y_rot ELSE 0,
     y_axis_angle  |-> IF result = "drawn" THEN draw_count ELSE 0,
     z_axis_angle  |-> IF result = "drawn" THEN x_rot ELSE 0,
     vertices      |-> md.vertices,
     indices       |-> md.indices]

\* Mutant of Frame: each stored angle turns the axis of its own name.
Frame_SameAxisPairing(result, w, h, x_rot, y_rot, offset, md) ==
    [result        |-> result,
     canvas_width  |-> w,
     canvas_height |-> h,
     x_rot         |-> x_rot,
     y_rot         |-> y_rot,
     camera_offset |-> offset,
     eye           |-> IF result = "drawn" THEN <<0, offset, offset>> ELSE <<0, 0, 0>>,
     fov           |-> IF result = "drawn" THEN FieldOfViewDegrees ELSE 0,
     z_near        |-> z_near,
     z_far         |-> z_far,
     x_axis_angle  |-> IF result = "drawn" THEN 0 - x_rot ELSE 0,
     y_axis_angle  |-> IF result = "drawn" THEN y_rot ELSE 0,
     z_axis_angle  |-> 0,
     vertices      |-> md.vertices,
     indices       |-> md.indices]

\* What one call of draw hands to the rendering context: the arguments, the
\* parameters of the three matrices and the two buffers.
\*   view       = look_at_lh((0, camera_offset, camera_offset), CAMERA_TARGET, up)
\*   projection = perspective_lh(60 degrees, width / height, z_near, z_far)
\*   world      = IDENTITY * rotation_x(-y_rot) * rotation_y(0) * rotation_z(x_rot)
Frame(result, w, h, x_rot, y_rot, offset, md) ==
    [result        |-> result,
     canvas_width  |-> w,
     canvas_height |-> h,
     x_rot         |-> x_rot,
     y_rot         |-> y_rot,
     camera_offset |-> offset,
     eye           |-> IF result = "drawn" THEN <<0, offset, offset>> ELSE <<0, 0, 0>>,
     fov           |-> IF result = "drawn" THEN FieldOfViewDegrees ELSE 0,
     z_near        |-> z_near,
     z_far         |-> z_far,
     x_axis_angle  |-> IF result = "drawn" THEN 0 - y_rot ELSE 0,
     y_axis_angle  |-> 0,
     z_axis_angle  |-> IF result = "drawn" THEN x_rot ELSE 0,
     vertices      |-> md.vertices,
     indices       |-> md.indices]

NoDraw == Frame("none", 0, 0, 0, 0, 0, NoModelData)

\* WebGLState::draw: with no model data it logs and panics, otherwise it
\* uploads the matrices and the two buffers and draws.  It takes &self and
\* assigns no field.
draw(md, w, h, x_rot, y_rot, offset) ==
    IF ~md.some
    THEN Frame("panic", w, h, x_rot, y_rot, offset, NoModelData)
    ELSE Frame("drawn", w, h, x_rot, y_rot, offset, md)

(***************************************************************************)
(* The canvas callbacks (init_dom/mod.rs) and the file callback            *)
(* (loader/mod.rs)                                                         *)
(***************************************************************************)
\* let scaling_factor: f64 = 0.25, in units of 1/FixedPoint
ScalingFactor == 1
\* new_camera_offset.clamp(1.0, 1000.0)
OffsetMin == 1 * FixedPoint
OffsetMax == 1000 * FixedPoint
\* new_rotation % 360.0
FullTurn == 360
\* the canvas size both callbacks pass to draw
DrawWidth == 800
DrawHeight == 600

\* f32::clamp
Clamp(x, lo, hi) == IF x < lo THEN lo ELSE IF x > hi THEN hi ELSE x

\* The % of f32 (and of every Rust number): the remainder of the division
\* truncated toward zero, which takes the sign of the dividend.
Rem(a, m) == IF a >= 0 THEN a % m ELSE 0 - ((0 - a) % m)

\* new_camera_offset of the wheel callback
NewCameraOffset(prev_offset, scroll_delta) ==
    Clamp(prev_offset + ScalingFactor * scroll_delta, OffsetMin, OffsetMax)

\* [new_rotation_x, new_rotation_y] of the mouse-move callback
NewRotation(prev_rotation_xy, prev_xy, client_x, client_y) ==
    LET delta_x == prev_xy[1] - client_x
        delta_y == prev_xy[2] - client_y
    IN  <<Rem(prev_rotation_xy[1] + delta_x, FullTurn),
          Rem(prev_rotation_xy[2] + delta_y, FullTurn)>>

\* The Ref guards alive while draw runs: the receiver's borrow() and one
\* borrow() per argument read from the shared state, all temporaries of the
\* one call statement.
DrawBorrows == 6

\* RefCell::borrow_mut succeeds only when no borrow is outstanding.
BorrowMutOk == borrow_flag = 0

\* the position a mousemove event delivers; NoPointer before the first one
NoPointer == [seen |-> FALSE, xy |-> <<0, 0>>]
PointerAt(client_x, client_y) == [seen |-> TRUE, xy |-> <<client_x, client_y>>]

Ended(handler, result, panic) ==
    [handler |-> handler, result |-> result, panic |-> panic]

\* A callback that panicked in borrow_mut before storing anything.
BorrowMutPanic(handler) ==
    /\ last_event' = Ended(handler, "panic", "BorrowMutError")
    /\ events_handled' = events_handled + 1
    /\ UNCHANGED <<canvas_cursor_is_dragging, canvas_cursor_xy_coordinates,
                   current_rotation, camera_offset, model_data, borrow_flag,
                   last_draw, draw_count, prev_draw>>

\* The call of draw that ends the wheel callback and the dragging branch of
\* the mouse-move callback, on the state the callback has just stored.
DrawCall(handler, rotation, offset) ==
    LET frame == draw(model_data, DrawWidth, DrawHeight, rotation[1], rotation[2], offset)
    IN  /\ last_draw' = frame
        /\ prev_draw' = last_draw
        /\ draw_count' = draw_count + 1
        /\ borrow_flag' = IF frame.result = "panic" THEN DrawBorrows ELSE borrow_flag
        /\ last_event' = IF frame.result = "panic"
                         THEN Ended(handler, "panic", "no model data")
                         ELSE Ended(handler, "ok", "")

mouse_down_event_callback ==
    /\ events_handled < MaxEvents
    /\ IF ~BorrowMutOk THEN BorrowMutPanic("mousedown")
       ELSE /\ canvas_cursor_is_dragging' = TRUE
            /\ last_event' = Ended("mousedown", "ok", "")
            /\ events_handled' = events_handled + 1
            /\ UNCHANGED <<canvas_cursor_xy_coordinates, current_rotation,
                           camera_offset, model_data, borrow_flag, last_draw,
                           draw_count, prev_draw>>
    /\ UNCHANGED <<last_pointer, parser_vars>>

mouse_up_event_callback ==
    /\ events_handled < MaxEvents
    /\ IF ~BorrowMutOk THEN BorrowMutPanic("mouseup")
       ELSE /\ canvas_cursor_is_dragging' = FALSE
            /\ last_event' = Ended("mouseup", "ok", "")
            /\ events_handled' = events_handled + 1
            /\ UNCHANGED <<canvas_cursor_xy_coordinates, current_rotation,
                           camera_offset, model_data, borrow_flag, last_draw,
                           draw_count, prev_draw>>
    /\ UNCHANGED <<last_pointer, parser_vars>>

mouse_wheel_event_callback(scroll_delta) ==
    /\ events_handled < MaxEvents
    /\ IF ~BorrowMutOk THEN BorrowMutPanic("wheel")   \* borrow_mut().camera_offset
       ELSE LET new_camera_offset == NewCameraOffset(camera_offset, scroll_delta)
            IN  /\ camera_offset' = new_camera_offset
                /\ DrawCall("wheel", current_rotation, new_camera_offset)
                /\ events_handled' = events_handled + 1
                /\ UNCHANGED <<canvas_cursor_is_dragging,
                               canvas_cursor_xy_coordinates, current_rotation,
                               model_data>>
    /\ UNCHANGED <<last_pointer, parser_vars>>

mouse_drag_event_callback(client_x, client_y) ==
    /\ events_handled < MaxEvents
    /\ IF ~BorrowMutOk
       THEN \* dragging: the borrow()s succeed, borrow_mut().current_rotation
            \* panics; not dragging: borrow_mut().canvas_cursor_xy_coordinates
            \* panics
            BorrowMutPanic("mousemove")
       ELSE IF canvas_cursor_is_dragging
       THEN LET new_rotation == NewRotation(current_rotation,
                                            canvas_cursor_xy_coordinates,
                                            client_x, client_y)
                frame == draw(model_data, DrawWidth, DrawHeight,
                              new_rotation[1], new_rotation[2], camera_offset)
            IN  /\ current_rotation' = new_rotation
                /\ DrawCall("mousemove", new_rotation, camera_offset)
                \* the cursor is stored after draw returns
                /\ canvas_cursor_xy_coordinates' =
                       IF frame.result = "panic" THEN canvas_cursor_xy_coordinates
                       ELSE <<client_x, client_y>>
                /\ events_handled' = events_handled + 1
                /\ UNCHANGED <<canvas_cursor_is_dragging, camera_offset, model_data>>
       ELSE /\ canvas_cursor_xy_coordinates' = <<client_x, client_y>>
            /\ last_event' = Ended("mousemove", "ok", "")
            /\ events_handled' = events_handled + 1
            /\ UNCHANGED <<canvas_cursor_is_dragging, current_rotation,
                           camera_offset, model_data, borrow_flag, last_draw,
                           draw_count, prev_draw>>
    /\ last_pointer' = PointerAt(client_x, client_y)
    /\ UNCHANGED parser_vars

\* Mutant of HeldAfterLoad: a failed parse clears the held model data.
HeldAfterLoad_ClearedOnFailure(held, loaded) ==
    IF loaded.kind = "Ok" THEN held ELSE NoModelData

\* What the onloadend callback leaves as the held model data: both arms of
\* its match leave WebGLState alone (Err logs, Ok is a TODO).
HeldAfterLoad(held, loaded) == held

\* onloadend_cb of loader::load_obj, on the text of the picked file
onloadend_cb(input) ==
    /\ events_handled < MaxEvents
    /\ LET loaded == load_model(input)
       IN  /\ model_data' = HeldAfterLoad(model_data, loaded)
           /\ last_event' = IF loaded.kind = "Panic"
                            THEN Ended("onloadend", "panic", "expect")
                            ELSE Ended("onloadend", "ok", "")
    /\ events_handled' = events_handled + 1
    /\ UNCHANGED <<canvas_cursor_is_dragging, canvas_cursor_xy_coordinates,
                   current_rotation, camera_offset, borrow_flag, last_draw,
                   draw_count, prev_draw>>
    /\ UNCHANGED <<last_pointer, parser_vars>>

\* WebGLState::set_model_data.  It takes &mut self: on a WebGLState held in
\* the RefCell it runs only when no borrow is outstanding.
set_model_data(new_model_data) ==
    /\ events_handled < MaxEvents
    /\ BorrowMutOk
    /\ model_data' = new_model_data
    /\ last_event' = Ended("set_model_data", "ok", "")
    /\ events_handled' = events_handled + 1
    /\ UNCHANGED <<canvas_cursor_is_dragging, canvas_cursor_xy_coordinates,
                   current_rotation, camera_offset, borrow_flag, last_draw,
                   draw_count, prev_draw>>
    /\ UNCHANGED <<last_pointer, parser_vars>>


(***************************************************************************)
(* The viewer: inputs, initial state, next-state relation                  *)
(***************************************************************************)
\* e.client_x(), e.client_y()
CursorCoordinates == {-20, 0, 5}
\* e.delta_y(), whole numbers
WheelDeltas == {-10000, -3, 10000}

ExampleInput   == <<Line_v_1_2_3, Line_v_4_5_6, Line_f_1_2_1>>
OtherInput     == <<Line_v_m1_0_p2_9, Line_g, Line_f_quad>>
MalformedInput == <<Line_v_1_2_3, Line_v_1_2>>
\* texts the file callback is given
ViewerInputs == {ExampleInput, OtherInput, MalformedInput}

\* values set_model_data is given: None, or Some of a ModelData, which only
\* load_model builds
ModelDataValues ==
    {NoModelData} \cup
    {load_model(input).data : input \in {i \in ViewerInputs : load_model(i).kind = "Ok"}}

\* WebGLState::new: model_data: None
InitWebGLState == model_data = NoModelData

\* SharedState as constructed at start-up: not dragging, cursor at the
\* origin, angles in [0, 360), offset in [1.0, 1000.0], no borrow outstanding
InitialRotations == {<<0, 0>>, <<350, 10>>}
InitialOffsets == {5 * FixedPoint, 995 * FixedPoint}

InitSharedState ==
    /\ canvas_cursor_is_dragging = FALSE
    /\ canvas_cursor_xy_coordinates = <<0, 0>>
    /\ current_rotation \in InitialRotations
    /\ camera_offset \in InitialOffsets
    /\ borrow_flag = 0

InitObservation ==
    /\ last_event = Ended("none", "ok", "")
    /\ last_draw = NoDraw
    /\ prev_draw = NoDraw
    /\ draw_count = 0
    /\ events_handled = 0
    /\ last_pointer = NoPointer

ParserIdle ==
    /\ reader = <<>>
    /\ vertex_position_list = <<>>
    /\ triangle_list = <<>>
    /\ parse_status = "idle"
    /\ parse_input = <<>>
    /\ parse_output = NoModelData

Init == InitWebGLState /\ InitSharedState /\ InitObservation /\ ParserIdle

Next ==
    \/ mouse_down_event_callback
    \/ mouse_up_event_callback
    \/ \E scroll_delta \in WheelDeltas : mouse_wheel_event_callback(scroll_delta)
    \/ \E client_x \in CursorCoordinates, client_y \in CursorCoordinates :
           mouse_drag_event_callback(client_x, client_y)
    \/ \E input \in ViewerInputs : onloadend_cb(input)
    \/ \E new_model_data \in ModelDataValues : set_model_data(new_model_data)

Spec == Init /\ [][Next]_vars

(***************************************************************************)
(* The parser alone: load_model stepped one line at a time on every input  *)
(* of ParserInputs.                                                        *)
(***************************************************************************)
ViewerIdle ==
    /\ InitWebGLState
    /\ canvas_cursor_is_dragging = FALSE
    /\ canvas_cursor_xy_coordinates = <<0, 0>>
    /\ current_rotation = <<0, 0>>
    /\ camera_offset = 5 * FixedPoint
    /\ borrow_flag = 0
    /\ InitObservation

\* load_model up to the while loop
ParseInit ==
    /\ ViewerIdle
    /\ parse_input \in ParserInputs
    /\ reader = parse_input
    /\ vertex_position_list = InitialVertexPositionList
    /\ triangle_list = InitialTriangleList
    /\ parse_status = "reading"
    /\ parse_output = NoModelData

\* one turn of the while loop, on the line at the head of the reader
LoopTurn ==
    LET r == ReadLine(vertex_position_list, triangle_list, Head(reader))
    IN  /\ vertex_position_list' = r.vpl
        /\ triangle_list' = r.tl
        /\ parse_status' = IF r.panic THEN "panic" ELSE "reading"
        /\ reader' = IF r.panic THEN reader ELSE Tail(reader)
        /\ UNCHANGED <<parse_input, parse_output>>
        /\ UNCHANGED viewer_vars

Reading == parse_status = "reading" /\ reader # <<>>

\* match arm "v"
ReadVertexLine ==
    /\ Reading /\ Head(reader) # <<>> /\ Head(reader)[1] = PrefixV
    /\ LoopTurn

\* match arm "f"
ReadFaceLine ==
    /\ Reading /\ Head(reader) # <<>> /\ Head(reader)[1] = PrefixF
    /\ LoopTurn

\* match arms "g", _ and None
ReadOtherLine ==
    /\ Reading
    /\ IF Head(reader) = <<>> THEN TRUE ELSE Head(reader)[1] \notin {PrefixV, PrefixF}
    /\ LoopTurn

\* read_line returns 0: flatten both lists and return Ok(ModelData)
EndOfInput ==
    /\ parse_status = "reading" /\ reader = <<>>
    /\ parse_status' = "ok"
    /\ parse_output' = ModelData(vertex_position_list, triangle_list)
    /\ UNCHANGED <<reader, vertex_position_list, triangle_list, parse_input>>
    /\ UNCHANGED viewer_vars

ParseNext == ReadVertexLine \/ ReadFaceLine \/ ReadOtherLine \/ EndOfInput

SpecParse == ParseInit /\ [][ParseNext]_vars


(***************************************************************************)
(* Vocabulary of the properties                                            *)
(***************************************************************************)
IsVertexLine(l) == l # <<>> /\ l[1] = PrefixV
IsFaceLine(l) == l # <<>> /\ l[1] = PrefixF

\* a `v` line with fewer than 3 coordinate tokens or a non-numeric one
MalformedVertexLine(l) ==
    /\ IsVertexLine(l)
    /\ IF Len(l) < 4 THEN TRUE ELSE \E i \in 2..4 : ~ParseF32(l[i]).ok

\* an `f` line with fewer than 3 vertex tokens, or with an empty or
\* undecodable first slash-segment among them
MalformedFaceLine(l) ==
    /\ IsFaceLine(l)
    /\ IF Len(l) < 4 THEN TRUE
       ELSE \E i \in 2..4 : ~ParseU32(FirstSlashSegment(l[i])).ok

HasMalformedLine(input) ==
    \E i \in 1..Len(input) : MalformedVertexLine(input[i]) \/ MalformedFaceLine(input[i])

VertexLinesOf(input) == SelectSeq(input, IsVertexLine)
FaceLinesOf(input) == SelectSeq(input, IsFaceLine)

\* the point a well-formed `v` line states
PointOf(l) == <<ParseF32(l[2]).val, ParseF32(l[3]).val, ParseF32(l[4]).val>>

\* the triple a well-formed `f` line states
TripleOf(l) == <<ParseU32(FirstSlashSegment(l[2])).val,
                 ParseU32(FirstSlashSegment(l[3])).val,
                 ParseU32(FirstSlashSegment(l[4])).val>>

RECURSIVE TriplesOf(_)
TriplesOf(lines) ==
    IF lines = <<>> THEN <<>> ELSE TripleOf(Head(lines)) \o TriplesOf(Tail(lines))

ParseDone == parse_status \notin {"idle", "reading"}

CameraState == <<current_rotation, camera_offset, canvas_cursor_is_dragging,
                 canvas_cursor_xy_coordinates>>

(***************************************************************************)
(* Properties                                                              *)
(***************************************************************************)

\* C1: a draw requested while no model data is held ends with a defined
\* NoMeshLoaded failure value and never panics, whichever callback issued it.
C1_DrawWithoutMeshNeverPanics ==
    last_draw.result \in {"none", "drawn", "NoMeshLoaded"}

\* C2: a parse of an input that holds a malformed line ends by returning an
\* error value (no ModelData, no panic).
C2_MalformedLineReturnsError ==
    (ParseDone /\ HasMalformedLine(parse_input)) => parse_status = "err"

\* C3: a load whose parse fails leaves the held model data and the camera
\* state (rotation, offset, dragging, cursor) exactly as they were.
C3_FailedLoadKeepsMeshAndCamera ==
    [][(/\ events_handled' = events_handled + 1
        /\ last_event'.handler = "onloadend"
        /\ last_event'.result # "ok")
       => (model_data' = model_data /\ CameraState' = CameraState)]_vars

\* C3 witness: a failed load has just run while a mesh was held.
C3_Witness ==
    /\ last_event.handler = "onloadend"
    /\ last_event.result = "panic"
    /\ model_data.some

\* C4: both stored rotation angles lie in [0, 360) in every reachable state.
C4_RotationAnglesInRange ==
    \A i \in 1..2 : current_rotation[i] >= 0 /\ current_rotation[i] < FullTurn

\* C5: every Wheel(deltaY) sets offset to clamp(offset + 0.25 * deltaY, 1.0,
\* 1000.0), in the idle and in the dragging state alike, and changes neither
\* rotation, dragging nor the cursor.
C5_WheelSetsClampedOffset ==
    [][\A scroll_delta \in WheelDeltas :
          mouse_wheel_event_callback(scroll_delta)
          => /\ camera_offset' = Clamp(camera_offset + (FixedPoint * scroll_delta) \div 4,
                                       1 * FixedPoint, 1000 * FixedPoint)
             /\ UNCHANGED <<current_rotation, canvas_cursor_is_dragging,
                            canvas_cursor_xy_coordinates>>]_vars

\* C6: after a successful parse every returned index is > 0 and < the number
\* of stored points (sentinel included).
C6_IndicesWithinVertices ==
    parse_status = "ok"
    => \A i \in 1..Len(parse_output.indices) :
          /\ parse_output.indices[i] > 0
          /\ parse_output.indices[i] < Len(parse_output.vertices) \div 3

\* C7: after a successful parse the returned indices are exactly the triples
\* of the `f` lines, in line order, and nothing else.
C7_IndicesAreTheFaceTriples ==
    parse_status = "ok"
    => /\ parse_output.indices = TriplesOf(FaceLinesOf(parse_input))
       /\ Len(parse_output.indices) = 3 * Len(FaceLinesOf(parse_input))

\* C8: after a successful parse the returned vertices are the zero sentinel
\* followed by one point per `v` line, the k-th `v` line at position k; the
\* other lines contribute nothing.
C8_VerticesAreSentinelThenVLines ==
    parse_status = "ok"
    => LET vs == parse_output.vertices
           vlines == VertexLinesOf(parse_input)
       IN  /\ Len(vs) = 3 * (1 + Len(vlines))
           /\ SubSeq(vs, 1, 3) = <<0, 0, 0>>
           /\ \A k \in 1..Len(vlines) :
                 SubSeq(vs, 3 * k + 1, 3 * k + 3) = PointOf(vlines[k])

\* C8 witness: a successful parse of an input with two `v` lines, in an order
\* that tells them apart, and a line of another kind.
C8_Witness ==
    /\ parse_status = "ok"
    /\ Len(VertexLinesOf(parse_input)) = 2
    /\ PointOf(VertexLinesOf(parse_input)[1]) # PointOf(VertexLinesOf(parse_input)[2])
    /\ Len(parse_input) = 3

\* C9: a PointerMove(x, y) processed while dragging, with previous cursor
\* (px, py), sets rotation.x = (rotation.x + (py - y)) mod 360 and
\* rotation.y = (rotation.y + (px - x)) mod 360.
C9_DragAddsVerticalDeltaToFirstAngle ==
    [][\A x \in CursorCoordinates, y \in CursorCoordinates :
          (canvas_cursor_is_dragging /\ mouse_drag_event_callback(x, y))
          => current_rotation' =
                 <<(current_rotation[1] + (canvas_cursor_xy_coordinates[2] - y)) % 360,
                   (current_rotation[2] + (canvas_cursor_xy_coordinates[1] - x)) % 360>>]_vars

\* C10: when the file callback is given a text that parses, the parsed
\* ModelData becomes the held model data, replacing what was held.
C10_ParsedMeshBecomesHeld ==
    [][\A input \in ViewerInputs :
          (onloadend_cb(input) /\ load_model(input).kind = "Ok")
          => model_data' = load_model(input).data]_vars

\* A step that is one run of a callback.
EventStep == events_handled' = events_handled + 1

\* A step that has issued exactly one draw whose rotation and offset
\* arguments are the values the shared state holds after the step.
OneDrawOfStoredValues ==
    /\ draw_count' = draw_count + 1
    /\ last_draw'.x_rot = current_rotation'[1]
    /\ last_draw'.y_rot = current_rotation'[2]
    /\ last_draw'.camera_offset = camera_offset'

\* C11: every callback that changes rotation or offset issues, in the same
\* step, exactly one draw whose rotation and offset arguments are the values
\* just stored; and every Wheel issues that draw, also when the clamp leaves
\* the offset as it was.
C11_ChangeIsFollowedByDrawOfNewValues ==
    [][/\ (current_rotation' # current_rotation \/ camera_offset' # camera_offset)
          => OneDrawOfStoredValues
       /\ \A scroll_delta \in WheelDeltas :
             mouse_wheel_event_callback(scroll_delta) => OneDrawOfStoredValues]_vars

\* C12: PointerDown leaves the controller dragging and PointerUp leaves it
\* idle, from either state; no other callback changes dragging; PointerDown
\* and PointerUp leave rotation, offset and the cursor alone and issue no
\* draw.
C12_DraggingFollowsLastDownOrUp ==
    [][EventStep
       => /\ last_event'.handler = "mousedown" => canvas_cursor_is_dragging'
          /\ last_event'.handler = "mouseup" => ~canvas_cursor_is_dragging'
          /\ last_event'.handler \notin {"mousedown", "mouseup"}
             => UNCHANGED canvas_cursor_is_dragging
          /\ last_event'.handler \in {"mousedown", "mouseup"}
             => UNCHANGED <<current_rotation, camera_offset,
                            canvas_cursor_xy_coordinates, draw_count, last_draw>>]_vars

\* C13: after a draw that failed because no model data was held, every later
\* callback still runs to its end (a further draw without model data is again
\* the same failure of that frame only), and once model data is held the
\* next Wheel or dragging PointerMove draws.
C13_FailedDrawIsRecoverable ==
    [][(EventStep /\ last_draw.result \notin {"none", "drawn"})
       => /\ last_event'.panic # "BorrowMutError"
          /\ last_event'.handler \in {"mousedown", "mouseup"}
             => last_event'.result = "ok"
          /\ (/\ model_data.some
              /\ \/ last_event'.handler = "wheel"
                 \/ last_event'.handler = "mousemove" /\ canvas_cursor_is_dragging)
             => (draw_count' = draw_count + 1 /\ last_draw'.result = "drawn")]_vars

\* Two calls of draw were given the same viewport, rotation, offset, clip
\* planes and model data, and both drew.
SameRequest(f, g) ==
    /\ f.result = "drawn" /\ g.result = "drawn"
    /\ f.canvas_width = g.canvas_width /\ f.canvas_height = g.canvas_height
    /\ f.x_rot = g.x_rot /\ f.y_rot = g.y_rot
    /\ f.camera_offset = g.camera_offset
    /\ f.z_near = g.z_near /\ f.z_far = g.z_far
    /\ f.vertices = g.vertices /\ f.indices = g.indices

C15_DragAxesEndToEnd ==
    [][/\ last_draw'.y_axis_angle = 0
       /\ last_draw'.result = "drawn"
          => /\ last_draw'.x_axis_angle = 0 - current_rotation'[2]
             /\ last_draw'.z_axis_angle = current_rotation'[1]
       /\ \A x \in CursorCoordinates, y \in CursorCoordinates :
             (/\ mouse_drag_event_callback(x, y)
              /\ draw_count' = draw_count + 1
              /\ last_draw'.result = "drawn")
             => LET px == canvas_cursor_xy_coordinates[1]
                    py == canvas_cursor_xy_coordinates[2]
                IN  /\ x = px
                       => /\ last_draw'.z_axis_angle = current_rotation[1]
                          /\ last_draw'.x_axis_angle =
                                 0 - Rem(current_rotation[2] + (py - y), FullTurn)
                    /\ y = py
                       => /\ last_draw'.x_axis_angle = 0 - current_rotation[2]
                          /\ last_draw'.z_axis_angle =
                                 Rem(current_rotation[1] + (px - x), FullTurn)]_vars

\* C15 witness: the only frame drawn so far came from a dragging move that
\* kept the pointer's x and changed its y: the angle about X has turned, the
\* angle about Z has not.
C15_Witness ==
    /\ last_event = Ended("mousemove", "ok", "")
    /\ canvas_cursor_is_dragging
    /\ draw_count = 1
    /\ last_draw.result = "drawn"
    /\ last_draw.x_axis_angle # 0
    /\ last_draw.z_axis_angle = 0

\* [delta_x, delta_y] as the dragging branch of the mouse-move callback
\* computes them for an event at (client_x, client_y), from the cursor the
\* shared state holds when the callback starts.
Delta(client_x, client_y) ==
    <<canvas_cursor_xy_coordinates[1] - client_x,
      canvas_cursor_xy_coordinates[2] - client_y>>

\* C16: a dragging PointerMove(x, y) computes its deltas as the cursor left
\* by the PointerMove just before it, minus (x, y), and adds them to the
\* rotation; a dragging move to the position of the dragging move just before
\* it computes a zero delta and leaves rotation as it was.
C16_DeltaFromPrecedingMove ==
    [][\A x \in CursorCoordinates, y \in CursorCoordinates :
          (canvas_cursor_is_dragging /\ mouse_drag_event_callback(x, y))
          => /\ last_pointer.seen
                => Delta(x, y) = <<last_pointer.xy[1] - x, last_pointer.xy[2] - y>>
             /\ (last_event.handler = "mousemove" /\ last_pointer = PointerAt(x, y))
                => (Delta(x, y) = <<0, 0>> /\ UNCHANGED current_rotation)]_vars

\* C17: PointerMove(x, y) sets the cursor to (x, y) in the idle and in the
\* dragging state; processed in the idle state it changes neither rotation,
\* offset nor dragging and issues no draw.
C17_MoveStoresCursor ==
    [][\A x \in CursorCoordinates, y \in CursorCoordinates :
          mouse_drag_event_callback(x, y)
          => /\ canvas_cursor_xy_coordinates' = <<x, y>>
             /\ ~canvas_cursor_is_dragging
                => UNCHANGED <<current_rotation, camera_offset,
                               canvas_cursor_is_dragging, draw_count, last_draw>>]_vars

\* C18: callbacks run one at a time never fail the RefCell's runtime borrow
\* check: no callback ends in a BorrowMutError panic.
C18_BorrowCheckNeverFails ==
    last_event.panic # "BorrowMutError"

\* The callbacks the claim counts: a Wheel, or a PointerMove that starts in
\* the dragging state.
DrawingEvent ==
    \/ last_event'.handler = "wheel"
    \/ last_event'.handler = "mousemove" /\ canvas_cursor_is_dragging

\* C19: every Wheel and every PointerMove processed while dragging issues
\* exactly one draw, and every other callback (PointerDown, PointerUp,
\* PointerMove while idle, the file callback, set_model_data) issues none, so
\* the number of draws is the number of Wheel and dragging PointerMove events.
C19_DrawsCountDrawingEvents ==
    [][EventStep
       => draw_count' = IF DrawingEvent THEN draw_count + 1 ELSE draw_count]_vars

====
